---- MODULE Spec2Model ----
(***************************************************************************)
(* Model of the checkpointed archive harvester of                          *)
(* src/telegram_handler.py (collect_links_with_flags) and its checkpoint   *)
(* store src/state_manager.py (StateStore).                                *)
(*                                                                         *)
(* A message of the archive is identified by its id; the archive is the    *)
(* sequence of the messages' contents indexed by id (ids 1..Len(archive)). *)
(* A flag (MsgFlag) is represented by its id; Null (0) stands for None.    *)
(* The date of a flag and the timestamps of the state are not modelled.    *)
(***************************************************************************)
EXTENDS Integers, Sequences, FiniteSets, TLC

\* ---------------------------------------------------------------- bounds
MaxId == 3          \* the archive holds at most MaxId messages
MaxBatch == 2       \* batch_size ranges over 1..MaxBatch
MaxRecords == 2     \* max_records ranges over 0..MaxRecords
MaxRuns == 3        \* number of runs started in one behaviour
MaxPosts == 1       \* number of messages posted in one behaviour
MaxNameLen == 2     \* the middle part of a channel name has at most MaxNameLen tokens
MaxPathLen == 2     \* a channel name or search term given to make_state_path has at most MaxPathLen characters

Null == 0           \* None (a missing flag); message ids are >= 1

\* ------------------------------------------------------ archive contents
\* What the code looks at in a message: whether search_term is a substring
\* of its text, its first button (none, without url, with url) and whether
\* the text holds a substring matching _URL_RE.
Buttons == {"none", "nourl", "url"}
Message == [match : BOOLEAN, button : Buttons, texturl : BOOLEAN]

Plain == [match |-> FALSE, button |-> "none", texturl |-> FALSE]
WithLink == [match |-> TRUE, button |-> "none", texturl |-> TRUE]
Silent == [match |-> TRUE, button |-> "nourl", texturl |-> FALSE]

\* the contents the archives of the model are built from
ArchiveKinds == {Plain, WithLink, Silent}

\* --------------------------------------------------------- channel names
\* A channel name is a sequence of tokens: the characters the code strips,
\* and the pieces of text without any of them that its prefixes are made of
\* ("x" stands for any other piece).
Tokens == {"https:", "http:", "t.me", "/", "@", " ", "x"}
StripSet == {"/", "@", " "}

\* "https://t.me/", "http://t.me/" and "t.me/"
HttpsPrefix == <<"https:", "/", "/", "t.me", "/">>
HttpPrefix == <<"http:", "/", "/", "t.me", "/">>
BarePrefix == <<"t.me", "/">>

RECURSIVE LStrip(_, _)
LStrip(s, set) ==
    IF s # <<>> /\ Head(s) \in set THEN LStrip(Tail(s), set) ELSE s

RECURSIVE RStrip(_, _)
RStrip(s, set) ==
    IF s # <<>> /\ s[Len(s)] \in set THEN RStrip(SubSeq(s, 1, Len(s) - 1), set) ELSE s

Strip(s, set) == RStrip(LStrip(s, set), set)

\* s.startswith(p)
StartsWith(s, p) == Len(s) >= Len(p) /\ SubSeq(s, 1, Len(p)) = p

\* if s.startswith(p): s = s.replace(p, "", 1)
RemovePrefix(s, p) == IF StartsWith(s, p) THEN SubSeq(s, Len(p) + 1, Len(s)) ELSE s

\* _normalize_channel_username: <<>> stands for None
NormalizeChannelUsername(channel_name) ==
    LET s0 == Strip(channel_name, {" "})
        s1 == RemovePrefix(s0, HttpsPrefix)
        s2 == RemovePrefix(s1, HttpPrefix)
        s3 == RemovePrefix(s2, BarePrefix)
    IN  Strip(s3, StripSet)

\* the channel names of the identities of the model
ChannelNames == { <<"t.me", "/", "x">> }

\* ------------------------------------------------------------------ urls
NoUrl == [src |-> "none", id |-> 0]

\* _extract_url: the url of the first button when the message has buttons
\* (None when that button carries no url), else the url of the text, else
\* the permalink, else None
ExtractUrl(msg, id, channel_name) ==
    IF msg.button # "none"
    THEN (IF msg.button = "url" THEN [src |-> "button", id |-> id] ELSE NoUrl)
    ELSE IF msg.texturl
    THEN [src |-> "text", id |-> id]
    ELSE IF NormalizeChannelUsername(channel_name) # <<>>
    THEN [src |-> "permalink", id |-> id]
    ELSE NoUrl

\* ------------------------------------------------------------ the state
NoMeta == [run_reason |-> "none", batch_size |-> 0, max_records |-> 0,
           finished_at |-> FALSE, collected |-> -1]

\* StateStore.load when the file does not exist
DefaultState == [status |-> "idle", start_flag |-> Null, middle_flag |-> Null,
                 end_flag |-> Null, meta |-> NoMeta]

VARIABLES
    archive,        \* the messages of the channel, by id
    channel_name,   \* the channel of the identity
    file_exists,    \* os.path.exists(self.path)
    disk,           \* the content of the state file
    pc,             \* position of the process in collect_links_with_flags
    state,          \* the dict `state`
    cursor,         \* `cursor`
    collected,      \* `collected`
    messages,       \* `messages`, the ids of the fetched batch
    idx,            \* position of the for loop in messages
    last_in_batch,  \* `last_in_batch`
    max_records,    \* argument
    batch_size,     \* argument; the caller passes the same value in every call
    latest_flag,    \* `latest_flag`
    run_reason,     \* `run_reason`
    outcome,        \* how the last call ended: "none", "returned", "error", "killed"
    runs,           \* number of calls started
    posts,          \* number of messages posted
    hist,           \* history of the runs (observation only)
    corrupt,        \* the state file does not parse (json.load raises)
    files,          \* StateStore alone: the files at self.path and tmp_path
    save_pc,        \* StateStore alone: position of the process in save
    save_arg,       \* StateStore alone: the argument of save
    load_result,    \* StateStore alone: what the last load gave
    store_hist,     \* StateStore alone: history of the saves (observation only)
    extracted,      \* _extract_url alone: the message and the url it gave
    state_paths,    \* make_state_path alone: two identities and their paths
    normalized,     \* _normalize_channel_username alone: what it gave
    other           \* two processes: the variables of the process that waits

vars == <<archive, channel_name, file_exists, disk, pc, state, cursor, collected,
          messages, idx, last_in_batch, max_records, batch_size, latest_flag,
          run_reason, outcome, runs, posts, hist, corrupt, files, save_pc,
          save_arg, load_result, store_hist, extracted, state_paths, normalized,
          other>>

\* the variables of a call of collect_links_with_flags
runvars == <<archive, channel_name, file_exists, disk, pc, state, cursor, collected,
             messages, idx, last_in_batch, max_records, batch_size, latest_flag,
             run_reason, outcome, runs, posts, hist, corrupt>>

\* the variables of the functions taken alone
purevars == <<extracted, state_paths, normalized>>

\* the variables of StateStore taken alone
storevars == <<files, save_pc, save_arg, load_result, store_hist>>

progvars == <<state, cursor, collected, messages, idx, last_in_batch>>

\* ------------------------------------------------------------ helpers
Ids(arch) == 1 .. Len(arch)

\* StateStore.load: the default state when the file does not exist, else
\* the content of the file
Load == IF file_exists THEN disk ELSE DefaultState

\* StartCursor with the two branches in the other order
StartCursorEndFirst(st) ==
    IF st.end_flag # Null THEN st.end_flag
    ELSE IF st.status = "in_progress" /\ st.middle_flag # Null THEN st.middle_flag
    ELSE Null

\* "Determine starting cursor": the cursor of the run, from the loaded state
StartCursor(st) ==
    IF st.status = "in_progress" /\ st.middle_flag # Null THEN st.middle_flag
    ELSE IF st.end_flag # Null THEN st.end_flag
    ELSE Null

\* "Determine starting cursor": the run_reason of the run
RunReason(st) ==
    IF st.status = "in_progress" /\ st.middle_flag # Null THEN "resume_unfinished"
    ELSE IF st.end_flag # Null THEN "continue_archive"
    ELSE "first_run"

\* Older with the message right below the cursor left out
OlderSkipOne(c, arch) == IF c = Null THEN Ids(arch) ELSE {i \in Ids(arch) : i < c - 1}

\* Older with the message at the cursor included
OlderOrEqual(c, arch) == IF c = Null THEN Ids(arch) ELSE {i \in Ids(arch) : i <= c}

\* the ids iter_messages offers for a cursor: all of them for None, else
\* those with id < offset_id
Older(c, arch) == IF c = Null THEN Ids(arch) ELSE {i \in Ids(arch) : i < c}

RECURSIVE Newest(_, _)
\* the n largest ids of the set S, newest first
Newest(S, n) ==
    IF n = 0 \/ S = {} THEN <<>>
    ELSE LET m == CHOOSE x \in S : \A y \in S : y <= x
         IN  <<m>> \o Newest(S \ {m}, n - 1)

\* fetch_batch: up to `limit` messages older than the cursor, newest first
FetchBatch(c, limit, arch) == Newest(Older(c, arch), limit)

\* ReloadCursor that starts over from the newest message
ReloadCursorFromStart(st, c) == Null

\* the cursor after a read error: the reloaded middle_flag, or the cursor
ReloadCursor(st, c) == IF st.middle_flag # Null THEN st.middle_flag ELSE c

\* WantMore off by one
WantMoreInclusive(coll, mr) == Len(coll) <= mr

\* the condition of the while loop
WantMore(coll, mr) == Len(coll) < mr

\* NeedReconnect without the test of the length of the batch
NeedReconnectAnyBatch(msgs, bs, coll, mr) == Len(coll) < mr

\* the condition of the proactive reconnect
NeedReconnect(msgs, bs, coll, mr) == Len(msgs) >= bs /\ Len(coll) < mr

\* BatchMark as the first message of the batch
BatchMarkFirstFetched(last, msgs) == msgs[1]

\* BatchMark as the last message of the batch
BatchMarkLastFetched(last, msgs) == msgs[Len(msgs)]

\* the middle_flag of a batch: the last message the for loop has processed
BatchMark(last, msgs) == last

\* the record appended for a message
Record(id, url) == [url |-> url, message_id |-> id]

\* The history of the runs: the ids the running call has processed (scanned)
\* and those of them processed after its last save (inflight); the same
\* for the call before it, and whether that call was killed; the ids
\* processed by earlier calls (ever) and by two earlier calls (again); the
\* state the running call loaded; the exclusive upper bound of the ids the
\* running call walks (top, 0 while it is not known); the starting cursor
\* it chose (resume); whether its for loop was left by the break before the
\* last message of the batch (cut); whether it has processed a message
\* twice (dup); whether its last step was the reload of the state after a
\* read error (reread); the ids of the records the calls have returned
\* (returned); whether the other process was between the save of its
\* start and its end when the running call loaded the state (rival).
NoHist == [scanned |-> {}, inflight |-> {}, prev_scanned |-> {},
           prev_inflight |-> {}, prev_killed |-> FALSE, ever |-> {},
           again |-> {}, loaded |-> DefaultState, top |-> 0, resume |-> Null,
           cut |-> FALSE, dup |-> FALSE, reread |-> FALSE,
           returned |-> {}, rival |-> FALSE]

\* The variables of a second process in collect_links_with_flags on the
\* same state file, while it waits; as long as there is one process only,
\* they stay those of a process that has not called.
NoOther == [pc |-> "idle", state |-> DefaultState, cursor |-> Null,
            collected |-> <<>>, messages |-> <<>>, idx |-> 0,
            last_in_batch |-> Null, max_records |-> 0, latest_flag |-> Null,
            run_reason |-> "none", outcome |-> "none", hist |-> NoHist]

\* ------------------------------------------------- the state file as text
\* What json.dump writes is a sequence of pieces: the opening brace, one
\* piece for each key and the closing brace. A piece holds its key and the
\* value (a string, a flag or the meta).
Piece(k, s, n, m) == [k |-> k, s |-> s, n |-> n, m |-> m]

\* json.dump(state, f): the pieces of a state, in the order they are written
Dump(st) ==
    << Piece("{", "", Null, NoMeta),
       Piece("status", st.status, Null, NoMeta),
       Piece("start_flag", "", st.start_flag, NoMeta),
       Piece("middle_flag", "", st.middle_flag, NoMeta),
       Piece("end_flag", "", st.end_flag, NoMeta),
       Piece("meta", "", Null, st.meta),
       Piece("}", "", Null, NoMeta) >>

\* json.load(f): the state when the text is a whole document, else an error
\* (JSONDecodeError)
Parse(c) ==
    IF /\ Len(c) = 7
       /\ c[1].k = "{" /\ c[2].k = "status" /\ c[3].k = "start_flag"
       /\ c[4].k = "middle_flag" /\ c[5].k = "end_flag" /\ c[6].k = "meta"
       /\ c[7].k = "}"
    THEN [ok |-> TRUE,
          state |-> [status |-> c[2].s, start_flag |-> c[3].n,
                     middle_flag |-> c[4].n, end_flag |-> c[5].n, meta |-> c[6].m]]
    ELSE [ok |-> FALSE, state |-> DefaultState]

\* a file: whether it exists, and its text
Absent == [exists |-> FALSE, content |-> <<>>]
NoFiles == [path |-> Absent, tmp |-> Absent]

\* the result of a load: done once load has returned or raised, ok unless it
\* raised
NoResult == [done |-> FALSE, ok |-> TRUE, state |-> DefaultState]

\* The history of the saves: the file at self.path when the last save began
\* (before), whether that save ran to its end and wrote the text the file
\* held already (resaved), whether it was killed (killed), whether a save
\* was ever killed (ever_killed).
NoStoreHist == [before |-> Absent, resaved |-> FALSE, killed |-> FALSE,
                ever_killed |-> FALSE]

\* the states the saves of StateStore taken alone are given
StoreStates == [status : {"idle", "in_progress"}, start_flag : {Null},
                middle_flag : {Null, 1}, end_flag : {Null, 1}, meta : {NoMeta}]

\* no save and no load of StateStore taken alone has happened
StoreIdle ==
    /\ files = NoFiles
    /\ save_pc = "idle"
    /\ save_arg = DefaultState
    /\ load_result = NoResult
    /\ store_hist = NoStoreHist

\* make_state_path and _normalize_channel_username have not been applied
NoPaths == [done |-> FALSE, a |-> <<<<>>, <<>>>>, b |-> <<<<>>, <<>>>>,
            path_a |-> <<>>, path_b |-> <<>>]
NoNormalized == [done |-> FALSE, result |-> <<>>]

\* _extract_url has not been applied
NoExtract == [done |-> FALSE, id |-> 0, url |-> NoUrl]

\* ----------------------------------------------------------------- Init
Init ==
    /\ archive \in UNION { [1 .. n -> ArchiveKinds] : n \in 0 .. MaxId }
    /\ channel_name \in ChannelNames
    /\ file_exists = FALSE
    /\ disk = DefaultState
    /\ pc = "idle"
    /\ state = DefaultState
    /\ cursor = Null
    /\ collected = <<>>
    /\ messages = <<>>
    /\ idx = 0
    /\ last_in_batch = Null
    /\ max_records = 0
    /\ batch_size \in 1 .. MaxBatch
    /\ latest_flag = Null
    /\ run_reason = "none"
    /\ outcome = "none"
    /\ runs = 0
    /\ posts = 0
    /\ hist = NoHist
    /\ corrupt = FALSE
    /\ StoreIdle
    /\ other = NoOther
    /\ extracted = NoExtract
    /\ state_paths = NoPaths
    /\ normalized = NoNormalized

\* -------------------------------------------------------------- actions
\* A new message is posted in the channel. The call reads the newest end of
\* the channel in get_entity/_get_latest_message_flag and in fetch_batch
\* only, so a message posted elsewhere in a call is seen as one posted
\* right before the next of these.
Post(k) ==
    /\ pc \in {"idle", "entity", "loop"}
    /\ Len(archive) < MaxId
    /\ posts < MaxPosts
    /\ posts' = posts + 1
    /\ archive' = Append(archive, k)
    /\ UNCHANGED <<corrupt, storevars, purevars, other>>
    /\ UNCHANGED <<channel_name, file_exists, disk, pc, state, cursor, collected,
                   messages, idx, last_in_batch, max_records, batch_size,
                   latest_flag, run_reason, outcome, runs, hist>>

\* StartRun that refuses a state file with status in_progress
StartRunExclusive(mr) ==
    /\ pc = "idle"
    /\ runs < MaxRuns
    /\ ~corrupt
    /\ Load.status # "in_progress"
    /\ runs' = runs + 1
    /\ max_records' = mr
    /\ state' = Load
    /\ collected' = <<>>
    /\ cursor' = Null
    /\ messages' = <<>>
    /\ idx' = 0
    /\ last_in_batch' = Null
    /\ latest_flag' = Null
    /\ run_reason' = "none"
    /\ outcome' = "none"
    /\ pc' = "entity"
    /\ hist' = [hist EXCEPT !.scanned = {}, !.inflight = {},
                            !.prev_scanned = hist.scanned,
                            !.prev_inflight = hist.inflight,
                            !.prev_killed = (outcome = "killed"),
                            !.ever = @ \cup hist.scanned,
                            !.again = @ \cup (hist.ever \cap hist.scanned),
                            !.loaded = Load, !.top = 0, !.resume = Null,
                            !.cut = FALSE, !.dup = FALSE, !.reread = FALSE,
                            !.rival = other.pc \in {"loop", "scan", "checkpoint",
                                                    "reconnect", "finalize"}]
    /\ UNCHANGED <<corrupt, storevars, purevars, other>>
    /\ UNCHANGED <<archive, channel_name, file_exists, disk, batch_size, posts>>

\* collect_links_with_flags is called: the state is loaded (lines 109-113).
StartRun(mr) ==
    /\ pc = "idle"
    /\ runs < MaxRuns
    /\ ~corrupt
    /\ runs' = runs + 1
    /\ max_records' = mr
    /\ state' = Load
    /\ collected' = <<>>
    /\ cursor' = Null
    /\ messages' = <<>>
    /\ idx' = 0
    /\ last_in_batch' = Null
    /\ latest_flag' = Null
    /\ run_reason' = "none"
    /\ outcome' = "none"
    /\ pc' = "entity"
    /\ hist' = [hist EXCEPT !.scanned = {}, !.inflight = {},
                            !.prev_scanned = hist.scanned,
                            !.prev_inflight = hist.inflight,
                            !.prev_killed = (outcome = "killed"),
                            !.ever = @ \cup hist.scanned,
                            !.again = @ \cup (hist.ever \cap hist.scanned),
                            !.loaded = Load, !.top = 0, !.resume = Null,
                            !.cut = FALSE, !.dup = FALSE, !.reread = FALSE,
                            !.rival = other.pc \in {"loop", "scan", "checkpoint",
                                                    "reconnect", "finalize"}]
    /\ UNCHANGED <<corrupt, storevars, purevars, other>>
    /\ UNCHANGED <<archive, channel_name, file_exists, disk, batch_size, posts>>

\* The call has ended: its locals are gone.
Exit ==
    /\ pc' = "idle"
    /\ state' = DefaultState
    /\ cursor' = Null
    /\ messages' = <<>>
    /\ idx' = 0
    /\ last_in_batch' = Null
    /\ latest_flag' = Null
    /\ run_reason' = "none"

\* GetEntity that looks up the oldest message
GetEntityOldest ==
    /\ pc = "entity"
    /\ latest_flag' = IF archive = <<>> THEN Null ELSE 1
    /\ pc' = "select"
    /\ UNCHANGED <<corrupt, storevars, purevars, other>>
    /\ UNCHANGED <<archive, channel_name, file_exists, disk, state, cursor,
                   collected, messages, idx, last_in_batch, max_records,
                   batch_size, run_reason, outcome, runs, posts, hist>>

\* get_entity succeeds and the newest message is looked up (lines 115-121).
GetEntity ==
    /\ pc = "entity"
    /\ latest_flag' = Len(archive)
    /\ pc' = "select"
    /\ UNCHANGED <<corrupt, storevars, purevars, other>>
    /\ UNCHANGED <<archive, channel_name, file_exists, disk, state, cursor,
                   collected, messages, idx, last_in_batch, max_records,
                   batch_size, run_reason, outcome, runs, posts, hist>>

\* GetEntityFail after the start of the run was saved
GetEntityFailMarked ==
    /\ pc = "entity"
    /\ Exit
    /\ outcome' = "error"
    /\ disk' = [state EXCEPT !.status = "in_progress"]
    /\ file_exists' = TRUE
    /\ UNCHANGED <<corrupt, storevars, purevars, other>>
    /\ UNCHANGED <<archive, channel_name, collected, max_records,
                   batch_size, runs, posts, hist>>

\* get_entity fails: RuntimeError (lines 116-119).
GetEntityFail ==
    /\ pc = "entity"
    /\ Exit
    /\ outcome' = "error"
    /\ UNCHANGED <<corrupt, storevars, purevars, other>>
    /\ UNCHANGED <<archive, channel_name, file_exists, disk, collected, max_records,
                   batch_size, runs, posts, hist>>

\* MarkRunStart that leaves the status as it was loaded
MarkRunStartUnmarked ==
    /\ pc = "select"
    /\ LET c == StartCursor(state)
           r == RunReason(state)
           s1 == [state EXCEPT
                      !.meta = [run_reason |-> r, batch_size |-> batch_size,
                                max_records |-> max_records,
                                finished_at |-> FALSE, collected |-> -1]]
           s2 == IF latest_flag # Null THEN [s1 EXCEPT !.start_flag = latest_flag] ELSE s1
           s3 == IF c # Null THEN [s2 EXCEPT !.middle_flag = c] ELSE s2
       IN  /\ cursor' = c
           /\ run_reason' = r
           /\ state' = s3
           /\ disk' = s3
           /\ hist' = [hist EXCEPT !.top = c, !.resume = c]
    /\ file_exists' = TRUE
    /\ pc' = "loop"
    /\ corrupt' = FALSE
    /\ UNCHANGED <<storevars, purevars, other>>
    /\ UNCHANGED <<archive, channel_name, collected, messages, idx, last_in_batch,
                   max_records, batch_size, latest_flag, outcome, runs, posts>>

\* The starting cursor is chosen and the start of the run is saved
\* (lines 123-154).
MarkRunStart ==
    /\ pc = "select"
    /\ LET c == StartCursor(state)
           r == RunReason(state)
           s1 == [state EXCEPT !.status = "in_progress",
                      !.meta = [run_reason |-> r, batch_size |-> batch_size,
                                max_records |-> max_records,
                                finished_at |-> FALSE, collected |-> -1]]
           s2 == IF latest_flag # Null THEN [s1 EXCEPT !.start_flag = latest_flag] ELSE s1
           s3 == IF c # Null THEN [s2 EXCEPT !.middle_flag = c] ELSE s2
       IN  /\ cursor' = c
           /\ run_reason' = r
           /\ state' = s3
           /\ disk' = s3
           /\ hist' = [hist EXCEPT !.top = c, !.resume = c]
    /\ file_exists' = TRUE
    /\ pc' = "loop"
    /\ corrupt' = FALSE
    /\ UNCHANGED <<storevars, purevars, other>>
    /\ UNCHANGED <<archive, channel_name, collected, messages, idx, last_in_batch,
                   max_records, batch_size, latest_flag, outcome, runs, posts>>

\* Fetch that takes a batch shorter than batch_size as the end of the channel
FetchStopOnShort ==
    /\ pc = "loop"
    /\ WantMore(collected, max_records)
    /\ messages' = FetchBatch(cursor, batch_size, archive)
    /\ idx' = 1
    /\ last_in_batch' = Null
    /\ pc' = IF Len(messages') < batch_size THEN "finalize" ELSE "scan"
    /\ hist' = [hist EXCEPT !.top = IF @ = 0 THEN Len(archive) + 1 ELSE @,
                            !.reread = FALSE]
    /\ UNCHANGED <<corrupt, storevars, purevars, other>>
    /\ UNCHANGED <<archive, channel_name, file_exists, disk, state, cursor,
                   collected, max_records, batch_size, latest_flag, run_reason,
                   outcome, runs, posts>>

\* One batch is read (lines 168-170, 179-181).
Fetch ==
    /\ pc = "loop"
    /\ WantMore(collected, max_records)
    /\ messages' = FetchBatch(cursor, batch_size, archive)
    /\ idx' = 1
    /\ last_in_batch' = Null
    /\ pc' = IF messages' = <<>> THEN "finalize" ELSE "scan"
    /\ hist' = [hist EXCEPT !.top = IF @ = 0 THEN Len(archive) + 1 ELSE @,
                            !.reread = FALSE]
    /\ UNCHANGED <<corrupt, storevars, purevars, other>>
    /\ UNCHANGED <<archive, channel_name, file_exists, disk, state, cursor,
                   collected, max_records, batch_size, latest_flag, run_reason,
                   outcome, runs, posts>>

\* The read fails: the state is reloaded and the read is retried
\* (lines 171-177).
FetchFail ==
    /\ pc = "loop"
    /\ WantMore(collected, max_records)
    /\ ~corrupt
    /\ state' = Load
    /\ cursor' = ReloadCursor(Load, cursor)
    /\ hist' = [hist EXCEPT !.reread = TRUE]
    /\ UNCHANGED <<corrupt, storevars, purevars, other>>
    /\ UNCHANGED <<archive, channel_name, file_exists, disk, pc, collected,
                   messages, idx, last_in_batch, max_records, batch_size,
                   latest_flag, run_reason, outcome, runs, posts>>

\* Scan in which a skipped entry does not become the last entry of the batch
ScanSkipUnmarked ==
    /\ pc = "scan"
    /\ idx <= Len(messages)
    /\ LET id == messages[idx]
           msg == archive[id]
           url == ExtractUrl(msg, id, channel_name)
           take == msg.match /\ url # NoUrl
           skip == msg.match /\ url = NoUrl
           coll == IF take THEN Append(collected, Record(id, url)) ELSE collected
           stop == take /\ ~WantMore(coll, max_records)
       IN  /\ last_in_batch' = IF skip THEN last_in_batch ELSE id
           /\ collected' = coll
           /\ state' = IF take THEN [state EXCEPT !.end_flag = id] ELSE state
           /\ idx' = idx + 1
           /\ pc' = IF stop \/ idx = Len(messages) THEN "checkpoint" ELSE "scan"
           /\ hist' = [hist EXCEPT !.scanned = @ \cup {id},
                                   !.inflight = @ \cup {id},
                                   !.cut = stop /\ idx < Len(messages),
                                   !.dup = @ \/ id \in hist.scanned]
    /\ UNCHANGED <<corrupt, storevars, purevars, other>>
    /\ UNCHANGED <<archive, channel_name, file_exists, disk, cursor, messages,
                   max_records, batch_size, latest_flag, run_reason, outcome, runs, posts>>

\* Scan that moves the end_flag to every message it processes
ScanFlagEvery ==
    /\ pc = "scan"
    /\ idx <= Len(messages)
    /\ LET id == messages[idx]
           msg == archive[id]
           url == ExtractUrl(msg, id, channel_name)
           take == msg.match /\ url # NoUrl
           coll == IF take THEN Append(collected, Record(id, url)) ELSE collected
           stop == take /\ ~WantMore(coll, max_records)
       IN  /\ last_in_batch' = id
           /\ collected' = coll
           /\ state' = [state EXCEPT !.end_flag = id]
           /\ idx' = idx + 1
           /\ pc' = IF stop \/ idx = Len(messages) THEN "checkpoint" ELSE "scan"
           /\ hist' = [hist EXCEPT !.scanned = @ \cup {id},
                                   !.inflight = @ \cup {id},
                                   !.cut = stop /\ idx < Len(messages),
                                   !.dup = @ \/ id \in hist.scanned]
    /\ UNCHANGED <<corrupt, storevars, purevars, other>>
    /\ UNCHANGED <<archive, channel_name, file_exists, disk, cursor, messages,
                   max_records, batch_size, latest_flag, run_reason, outcome, runs, posts>>

\* Scan that saves the state after each record
ScanSaving ==
    /\ pc = "scan"
    /\ idx <= Len(messages)
    /\ LET id == messages[idx]
           msg == archive[id]
           url == ExtractUrl(msg, id, channel_name)
           take == msg.match /\ url # NoUrl
           coll == IF take THEN Append(collected, Record(id, url)) ELSE collected
           stop == take /\ ~WantMore(coll, max_records)
       IN  /\ last_in_batch' = id
           /\ collected' = coll
           /\ state' = IF take THEN [state EXCEPT !.end_flag = id] ELSE state
           /\ disk' = IF take THEN state' ELSE disk
           /\ idx' = idx + 1
           /\ pc' = IF stop \/ idx = Len(messages) THEN "checkpoint" ELSE "scan"
           /\ hist' = [hist EXCEPT !.scanned = @ \cup {id},
                                   !.inflight = @ \cup {id},
                                   !.cut = stop /\ idx < Len(messages),
                                   !.dup = @ \/ id \in hist.scanned]
    /\ UNCHANGED <<corrupt, storevars, purevars, other>>
    /\ UNCHANGED <<archive, channel_name, file_exists, cursor, messages,
                   max_records, batch_size, latest_flag, run_reason, outcome, runs, posts>>

\* One message of the batch is processed (lines 191-222).
Scan ==
    /\ pc = "scan"
    /\ idx <= Len(messages)
    /\ LET id == messages[idx]
           msg == archive[id]
           url == ExtractUrl(msg, id, channel_name)
           take == msg.match /\ url # NoUrl
           coll == IF take THEN Append(collected, Record(id, url)) ELSE collected
           stop == take /\ ~WantMore(coll, max_records)
       IN  /\ last_in_batch' = id
           /\ collected' = coll
           /\ state' = IF take THEN [state EXCEPT !.end_flag = id] ELSE state
           /\ idx' = idx + 1
           /\ pc' = IF stop \/ idx = Len(messages) THEN "checkpoint" ELSE "scan"
           /\ hist' = [hist EXCEPT !.scanned = @ \cup {id},
                                   !.inflight = @ \cup {id},
                                   !.cut = stop /\ idx < Len(messages),
                                   !.dup = @ \/ id \in hist.scanned]
    /\ UNCHANGED <<corrupt, storevars, purevars, other>>
    /\ UNCHANGED <<archive, channel_name, file_exists, disk, cursor, messages,
                   max_records, batch_size, latest_flag, run_reason, outcome, runs, posts>>

\* Checkpoint that keeps the middle_flag in memory only
CheckpointUnsaved ==
    /\ pc = "checkpoint"
    /\ IF last_in_batch # Null
       THEN /\ cursor' = BatchMark(last_in_batch, messages)
            /\ state' = [state EXCEPT !.middle_flag = cursor']
       ELSE UNCHANGED <<cursor, state>>
    /\ UNCHANGED <<disk, file_exists, corrupt>>
    /\ pc' = IF NeedReconnect(messages, batch_size, collected, max_records)
             THEN "reconnect" ELSE "loop"
    /\ hist' = [hist EXCEPT !.inflight = {}]
    /\ UNCHANGED <<storevars, purevars, other>>
    /\ UNCHANGED <<archive, channel_name, collected, messages, idx, last_in_batch,
                   max_records, batch_size, latest_flag, run_reason, outcome, runs, posts>>

\* The middle_flag is updated and saved (lines 224-234).
Checkpoint ==
    /\ pc = "checkpoint"
    /\ IF last_in_batch # Null
       THEN /\ cursor' = BatchMark(last_in_batch, messages)
            /\ state' = [state EXCEPT !.middle_flag = cursor']
            /\ disk' = state'
            /\ file_exists' = TRUE
            /\ corrupt' = FALSE
       ELSE UNCHANGED <<cursor, state, disk, file_exists, corrupt>>
    /\ pc' = IF NeedReconnect(messages, batch_size, collected, max_records)
             THEN "reconnect" ELSE "loop"
    /\ hist' = [hist EXCEPT !.inflight = {}]
    /\ UNCHANGED <<storevars, purevars, other>>
    /\ UNCHANGED <<archive, channel_name, collected, messages, idx, last_in_batch,
                   max_records, batch_size, latest_flag, run_reason, outcome, runs, posts>>

\* Proactive disconnect and reconnect (lines 235-237).
Reconnect ==
    /\ pc = "reconnect"
    /\ pc' = "loop"
    /\ UNCHANGED <<corrupt, storevars, purevars, other>>
    /\ UNCHANGED <<archive, channel_name, file_exists, disk, state, cursor,
                   collected, messages, idx, last_in_batch, max_records,
                   batch_size, latest_flag, run_reason, outcome, runs, posts, hist>>

\* Finalize without the count of the collected records
FinalizeNoCount ==
    /\ \/ pc = "finalize"
       \/ pc = "loop" /\ ~WantMore(collected, max_records)
    /\ disk' = [state EXCEPT !.status = "idle", !.meta.finished_at = TRUE]
    /\ file_exists' = TRUE
    /\ Exit
    /\ outcome' = "returned"
    /\ corrupt' = FALSE
    /\ hist' = [hist EXCEPT !.returned =
                    @ \cup {collected[i].message_id : i \in 1 .. Len(collected)}]
    /\ UNCHANGED <<storevars, purevars, other>>
    /\ UNCHANGED <<archive, channel_name, collected, max_records, batch_size, runs,
                   posts>>

\* The loop is left; the state is finalized, saved, and the records are
\* returned (lines 239-245).
Finalize ==
    /\ \/ pc = "finalize"
       \/ pc = "loop" /\ ~WantMore(collected, max_records)
    /\ disk' = [state EXCEPT !.status = "idle", !.meta.finished_at = TRUE,
                             !.meta.collected = Len(collected)]
    /\ file_exists' = TRUE
    /\ Exit
    /\ outcome' = "returned"
    /\ corrupt' = FALSE
    /\ hist' = [hist EXCEPT !.returned =
                    @ \cup {collected[i].message_id : i \in 1 .. Len(collected)}]
    /\ UNCHANGED <<storevars, purevars, other>>
    /\ UNCHANGED <<archive, channel_name, collected, max_records, batch_size, runs,
                   posts>>

\* The process is killed during a run: what is in memory is lost.
Kill ==
    /\ pc # "idle"
    /\ Exit
    /\ collected' = <<>>
    /\ outcome' = "killed"
    /\ UNCHANGED <<corrupt, storevars, purevars, other>>
    /\ UNCHANGED <<archive, channel_name, file_exists, disk, max_records, batch_size,
                   runs, posts, hist>>

Next ==
    \/ \E k \in ArchiveKinds : Post(k)
    \/ \E mr \in 0 .. MaxRecords : StartRun(mr)
    \/ GetEntity
    \/ GetEntityFail
    \/ MarkRunStart
    \/ Fetch
    \/ FetchFail
    \/ Scan
    \/ Checkpoint
    \/ Reconnect
    \/ Finalize
    \/ Kill

Spec == Init /\ [][Next]_vars

\* ------------------------------------------------------------------
\* The choice of the starting cursor over every state file: the file holds
\* any status and any middle_flag and end_flag.
InitSelect ==
    /\ archive \in UNION { [1 .. n -> ArchiveKinds] : n \in 0 .. MaxId }
    /\ channel_name \in ChannelNames
    /\ file_exists = TRUE
    /\ disk \in [status : {"idle", "in_progress"}, start_flag : {Null},
                 middle_flag : 0 .. MaxId, end_flag : 0 .. MaxId, meta : {NoMeta}]
    /\ pc = "idle"
    /\ state = DefaultState
    /\ cursor = Null
    /\ collected = <<>>
    /\ messages = <<>>
    /\ idx = 0
    /\ last_in_batch = Null
    /\ max_records = 0
    /\ batch_size \in 1 .. MaxBatch
    /\ latest_flag = Null
    /\ run_reason = "none"
    /\ outcome = "none"
    /\ runs = 0
    /\ posts = 0
    /\ hist = NoHist
    /\ corrupt = FALSE
    /\ StoreIdle
    /\ other = NoOther
    /\ extracted = NoExtract
    /\ state_paths = NoPaths
    /\ normalized = NoNormalized

NextSelect ==
    \/ \E mr \in 0 .. MaxRecords : StartRun(mr)
    \/ GetEntity
    \/ GetEntityFail
    \/ MarkRunStart

SpecSelect == InitSelect /\ [][NextSelect]_vars

\* ------------------------------------------------------------------
\* The calls of a process that is not killed. The event loop runs the
\* coroutine on: a step of the call that can be taken is taken, and a read
\* that is retried succeeds in the end.
NextLive ==
    \/ \E k \in ArchiveKinds : Post(k)
    \/ \E mr \in 0 .. MaxRecords : StartRun(mr)
    \/ GetEntity
    \/ GetEntityFail
    \/ MarkRunStart
    \/ Fetch
    \/ FetchFail
    \/ Scan
    \/ Checkpoint
    \/ Reconnect
    \/ Finalize

FairLive ==
    /\ WF_vars(MarkRunStart)
    /\ WF_vars(Fetch)
    /\ WF_vars(Scan)
    /\ WF_vars(Checkpoint)
    /\ WF_vars(Reconnect)
    /\ WF_vars(Finalize)

SpecLive == Init /\ [][NextLive]_vars /\ FairLive

\* ------------------------------------------------------------------
\* Two processes call collect_links_with_flags for the same identity.
\* The variables above are those of the process that takes the steps; the
\* other process waits. Nothing in the code makes a process wait for the
\* other, so the process that takes the steps can change at any time; the
\* two meet in the state file only, and the change is taken where the
\* next step of the process is a load or a save of it (the steps in
\* between touch the memory of their process and read the channel).
Switch ==
    /\ \/ pc \in {"idle", "select", "checkpoint", "finalize"}
       \/ pc = "loop" /\ ~WantMore(collected, max_records)
    /\ other' = [pc |-> pc, state |-> state, cursor |-> cursor,
                 collected |-> collected, messages |-> messages, idx |-> idx,
                 last_in_batch |-> last_in_batch, max_records |-> max_records,
                 latest_flag |-> latest_flag, run_reason |-> run_reason,
                 outcome |-> outcome, hist |-> hist]
    /\ pc' = other.pc
    /\ state' = other.state
    /\ cursor' = other.cursor
    /\ collected' = other.collected
    /\ messages' = other.messages
    /\ idx' = other.idx
    /\ last_in_batch' = other.last_in_batch
    /\ max_records' = other.max_records
    /\ latest_flag' = other.latest_flag
    /\ run_reason' = other.run_reason
    /\ outcome' = other.outcome
    /\ hist' = other.hist
    /\ UNCHANGED <<archive, channel_name, file_exists, disk, batch_size, runs,
                   posts, corrupt, storevars, purevars>>

NextTwo ==
    \/ \E mr \in 0 .. MaxRecords : StartRun(mr)
    \/ GetEntity
    \/ MarkRunStart
    \/ Fetch
    \/ Scan
    \/ Checkpoint
    \/ Reconnect
    \/ Finalize
    \/ Switch

SpecTwo == Init /\ [][NextTwo]_vars

\* ------------------------------------------------------------------
\* The calls with the failures that end them: a state file that does not
\* parse, and a connection that cannot be made.

\* The state file is damaged: json.load will raise. A call loads the file
\* at its start and after a read error only, so a damage elsewhere is seen
\* as one right before the next of these.
Corrupt ==
    /\ pc \in {"idle", "loop"}
    /\ file_exists
    /\ ~corrupt
    /\ corrupt' = TRUE
    /\ UNCHANGED <<archive, channel_name, file_exists, disk, pc, state, cursor,
                   collected, messages, idx, last_in_batch, max_records,
                   batch_size, latest_flag, run_reason, outcome, runs, posts, hist,
                   storevars, purevars, other>>

\* collect_links_with_flags is called and store.load raises (line 111).
StartRunFail ==
    /\ pc = "idle"
    /\ runs < MaxRuns
    /\ corrupt
    /\ runs' = runs + 1
    /\ collected' = <<>>
    /\ outcome' = "JSONDecodeError"
    /\ hist' = [hist EXCEPT !.scanned = {}, !.inflight = {},
                            !.prev_scanned = hist.scanned,
                            !.prev_inflight = hist.inflight,
                            !.prev_killed = (outcome = "killed"),
                            !.ever = @ \cup hist.scanned,
                            !.again = @ \cup (hist.ever \cap hist.scanned),
                            !.top = 0, !.resume = Null,
                            !.cut = FALSE, !.dup = FALSE, !.reread = FALSE]
    /\ UNCHANGED <<archive, channel_name, file_exists, disk, pc, state, cursor,
                   messages, idx, last_in_batch, max_records, batch_size,
                   latest_flag, run_reason, posts, corrupt, storevars, purevars, other>>

\* FetchFailLoadFail that goes on with the default state
FetchFailLoadDefault ==
    /\ pc = "loop"
    /\ WantMore(collected, max_records)
    /\ corrupt
    /\ state' = DefaultState
    /\ UNCHANGED <<archive, channel_name, file_exists, disk, pc, cursor, collected,
                   messages, idx, last_in_batch, max_records, batch_size,
                   latest_flag, run_reason, outcome, runs, posts, hist, corrupt,
                   storevars, purevars, other>>

\* The read fails and store.load raises in the handler (lines 171-175).
FetchFailLoadFail ==
    /\ pc = "loop"
    /\ WantMore(collected, max_records)
    /\ corrupt
    /\ Exit
    /\ collected' = <<>>
    /\ outcome' = "JSONDecodeError"
    /\ UNCHANGED <<archive, channel_name, file_exists, disk, max_records, batch_size,
                   runs, posts, hist, corrupt, storevars, purevars, other>>

\* The client cannot connect: async with raises (line 115).
ConnectFail ==
    /\ pc = "entity"
    /\ Exit
    /\ outcome' = "ConnectionError"
    /\ UNCHANGED <<archive, channel_name, file_exists, disk, collected, max_records,
                   batch_size, runs, posts, hist, corrupt, storevars, purevars, other>>

\* The read of the newest message fails (line 121).
LatestFlagFail ==
    /\ pc = "entity"
    /\ Exit
    /\ outcome' = "ConnectionError"
    /\ UNCHANGED <<archive, channel_name, file_exists, disk, collected, max_records,
                   batch_size, runs, posts, hist, corrupt, storevars, purevars, other>>

\* client.disconnect or client.connect raises (lines 235-237).
ReconnectFail ==
    /\ pc = "reconnect"
    /\ Exit
    /\ collected' = <<>>
    /\ outcome' = "ConnectionError"
    /\ UNCHANGED <<archive, channel_name, file_exists, disk, max_records, batch_size,
                   runs, posts, hist, corrupt, storevars, purevars, other>>

NextFault ==
    \/ Next
    \/ Corrupt
    \/ StartRunFail
    \/ FetchFailLoadFail
    \/ ConnectFail
    \/ LatestFlagFail
    \/ ReconnectFail

SpecFault == Init /\ [][NextFault]_vars

\* ------------------------------------------------------------------
\* StateStore taken alone: saves of any state, step by step, kills and
\* loads. No call of collect_links_with_flags is made.
NoRun ==
    /\ archive = <<>>
    /\ channel_name \in ChannelNames
    /\ file_exists = FALSE
    /\ disk = DefaultState
    /\ pc = "idle"
    /\ state = DefaultState
    /\ cursor = Null
    /\ collected = <<>>
    /\ messages = <<>>
    /\ idx = 0
    /\ last_in_batch = Null
    /\ max_records = 0
    /\ batch_size = 1
    /\ latest_flag = Null
    /\ run_reason = "none"
    /\ outcome = "none"
    /\ runs = 0
    /\ posts = 0
    /\ hist = NoHist
    /\ corrupt = FALSE

InitStore ==
    /\ NoRun
    /\ StoreIdle
    /\ other = NoOther
    /\ extracted = NoExtract
    /\ state_paths = NoPaths
    /\ normalized = NoNormalized

\* save is called (lines 52-54).
StoreSave(st) ==
    /\ save_pc = "idle"
    /\ save_arg' = st
    /\ save_pc' = "open"
    /\ load_result' = NoResult
    /\ store_hist' = [store_hist EXCEPT !.before = files.path, !.resaved = FALSE,
                                        !.killed = FALSE]
    /\ UNCHANGED <<files, runvars, purevars, other>>

\* StoreOpen with the file opened for appending
StoreOpenAppend ==
    /\ save_pc = "open"
    /\ files' = [files EXCEPT !.tmp.exists = TRUE]
    /\ save_pc' = "dump"
    /\ UNCHANGED <<save_arg, load_result, store_hist, runvars, purevars, other>>

\* open(tmp_path, "w"): the file is created, or emptied (line 55).
StoreOpen ==
    /\ save_pc = "open"
    /\ files' = [files EXCEPT !.tmp = [exists |-> TRUE, content |-> <<>>]]
    /\ save_pc' = "dump"
    /\ UNCHANGED <<save_arg, load_result, store_hist, runvars, purevars, other>>

\* json.dump: the next piece reaches the file (line 56).
StoreDump ==
    /\ save_pc = "dump"
    /\ Len(files.tmp.content) < Len(Dump(save_arg))
    /\ files' = [files EXCEPT !.tmp.content =
                     Append(@, Dump(save_arg)[Len(files.tmp.content) + 1])]
    /\ UNCHANGED <<save_pc, save_arg, load_result, store_hist, runvars, purevars, other>>

\* StoreReplace before the text is whole (os.replace inside the with block)
StoreReplaceEarly ==
    /\ save_pc = "dump"
    /\ files' = [path |-> files.tmp, tmp |-> Absent]
    /\ save_pc' = "idle"
    /\ store_hist' = [store_hist EXCEPT !.resaved = (files.path = files.tmp)]
    /\ UNCHANGED <<save_arg, load_result, runvars, purevars, other>>

\* The file is closed and os.replace moves it to self.path (lines 56-57).
StoreReplace ==
    /\ save_pc = "dump"
    /\ Len(files.tmp.content) = Len(Dump(save_arg))
    /\ files' = [path |-> files.tmp, tmp |-> Absent]
    /\ save_pc' = "idle"
    /\ store_hist' = [store_hist EXCEPT !.resaved = (files.path = files.tmp)]
    /\ UNCHANGED <<save_arg, load_result, runvars, purevars, other>>

\* The process is killed during save.
StoreKill ==
    /\ save_pc # "idle"
    /\ save_pc' = "idle"
    /\ store_hist' = [store_hist EXCEPT !.killed = TRUE, !.ever_killed = TRUE]
    /\ UNCHANGED <<files, save_arg, load_result, runvars, purevars, other>>

\* StoreLoad that writes the default state when the file is missing
StoreLoadCreating ==
    /\ save_pc = "idle"
    /\ load_result' =
          IF ~files.path.exists
          THEN [done |-> TRUE, ok |-> TRUE, state |-> DefaultState]
          ELSE [done |-> TRUE, ok |-> Parse(files.path.content).ok,
                state |-> Parse(files.path.content).state]
    /\ files' = IF ~files.path.exists
                THEN [files EXCEPT !.path = [exists |-> TRUE,
                                             content |-> Dump(DefaultState)]]
                ELSE files
    /\ UNCHANGED <<save_pc, save_arg, store_hist, runvars, purevars, other>>

\* load (lines 36-49).
StoreLoad ==
    /\ save_pc = "idle"
    /\ load_result' =
          IF ~files.path.exists
          THEN [done |-> TRUE, ok |-> TRUE, state |-> DefaultState]
          ELSE [done |-> TRUE, ok |-> Parse(files.path.content).ok,
                state |-> Parse(files.path.content).state]
    /\ UNCHANGED <<files, save_pc, save_arg, store_hist, runvars, purevars, other>>

NextStore ==
    \/ \E st \in StoreStates : StoreSave(st)
    \/ StoreOpen
    \/ StoreDump
    \/ StoreReplace
    \/ StoreKill
    \/ StoreLoad

SpecStore == InitStore /\ [][NextStore]_vars

\* ------------------------------------------------------------------
\* _extract_url taken alone: applied to a message of any content, with any
\* id, of a channel of any name of ChannelForms(MaxNameLen).
NamesUpTo(n) == UNION { [1 .. k -> Tokens] : k \in 0 .. n }

\* The channel names given: nothing, a space or an "@", then nothing or one
\* of the prefixes, then up to n tokens of any kind, then nothing, a "/" or
\* a space.
ChannelForms(n) ==
    { a \o p \o b \o c : a \in {<<>>, <<" ">>, <<"@">>},
                          p \in {<<>>, HttpsPrefix, HttpPrefix, BarePrefix},
                          b \in NamesUpTo(n),
                          c \in {<<>>, <<"/">>, <<" ">>} }

\* the message is the newest of the archive
InitUrl ==
    /\ archive \in { [i \in 1 .. id |-> msg] : id \in 1 .. MaxId, msg \in Message }
    /\ channel_name \in ChannelForms(MaxNameLen)
    /\ file_exists = FALSE
    /\ disk = DefaultState
    /\ pc = "idle"
    /\ state = DefaultState
    /\ cursor = Null
    /\ collected = <<>>
    /\ messages = <<>>
    /\ idx = 0
    /\ last_in_batch = Null
    /\ max_records = 0
    /\ batch_size = 1
    /\ latest_flag = Null
    /\ run_reason = "none"
    /\ outcome = "none"
    /\ runs = 0
    /\ posts = 0
    /\ hist = NoHist
    /\ corrupt = FALSE
    /\ StoreIdle
    /\ other = NoOther
    /\ extracted = NoExtract
    /\ state_paths = NoPaths
    /\ normalized = NoNormalized

\* _extract_url(msg, channel_name) is called (lines 33-57).
ExtractStep ==
    /\ ~extracted.done
    /\ extracted' = [done |-> TRUE, id |-> Len(archive),
                     url |-> ExtractUrl(archive[Len(archive)], Len(archive),
                                        channel_name)]
    /\ UNCHANGED <<runvars, storevars, state_paths, normalized, other>>

NextUrl == ExtractStep

SpecUrl == InitUrl /\ [][NextUrl]_vars

\* ------------------------------------------------------------------
\* make_state_path taken alone: applied to two pairs of a channel name and
\* a search term, each a string of at most MaxPathLen characters.
PathChars == {"a", "/", "_"}
Alnum == {"a"}

\* what lines 61-62 make of a character
SafeChar(c) ==
    IF c \in {"/", ":"} THEN "_"
    ELSE IF c \in Alnum \cup {"-", "_", " ", "."} THEN c
    ELSE "_"

\* make_state_path(STATE_DIR, channel_name, search_term), without the
\* directory
MakeStatePath(channel, term) ==
    LET s == channel \o <<"_">> \o term
    IN  <<"flags_">> \o [i \in 1 .. Len(s) |-> SafeChar(s[i])] \o <<".json">>

PathStrings == UNION { [1 .. k -> PathChars] : k \in 0 .. MaxPathLen }

InitPath ==
    /\ archive = <<>>
    /\ channel_name \in ChannelNames
    /\ file_exists = FALSE
    /\ disk = DefaultState
    /\ pc = "idle"
    /\ state = DefaultState
    /\ cursor = Null
    /\ collected = <<>>
    /\ messages = <<>>
    /\ idx = 0
    /\ last_in_batch = Null
    /\ max_records = 0
    /\ batch_size = 1
    /\ latest_flag = Null
    /\ run_reason = "none"
    /\ outcome = "none"
    /\ runs = 0
    /\ posts = 0
    /\ hist = NoHist
    /\ corrupt = FALSE
    /\ StoreIdle
    /\ other = NoOther
    /\ extracted = NoExtract
    /\ normalized = NoNormalized
    /\ state_paths \in [done : {FALSE}, a : PathStrings \X PathStrings,
                         b : PathStrings \X PathStrings,
                         path_a : {<<>>}, path_b : {<<>>}]

\* make_state_path is called for both pairs (lines 60-63).
MakePaths ==
    /\ ~state_paths.done
    /\ state_paths' = [state_paths EXCEPT
                          !.done = TRUE,
                          !.path_a = MakeStatePath(state_paths.a[1], state_paths.a[2]),
                          !.path_b = MakeStatePath(state_paths.b[1], state_paths.b[2])]
    /\ UNCHANGED <<runvars, storevars, extracted, normalized, other>>

NextPath == MakePaths

SpecPath == InitPath /\ [][NextPath]_vars

\* ------------------------------------------------------------------
\* _normalize_channel_username taken alone: applied to any name of
\* ChannelForms(MaxNameLen).
InitNorm ==
    /\ archive = <<>>
    /\ channel_name \in ChannelForms(MaxNameLen)
    /\ file_exists = FALSE
    /\ disk = DefaultState
    /\ pc = "idle"
    /\ state = DefaultState
    /\ cursor = Null
    /\ collected = <<>>
    /\ messages = <<>>
    /\ idx = 0
    /\ last_in_batch = Null
    /\ max_records = 0
    /\ batch_size = 1
    /\ latest_flag = Null
    /\ run_reason = "none"
    /\ outcome = "none"
    /\ runs = 0
    /\ posts = 0
    /\ hist = NoHist
    /\ corrupt = FALSE
    /\ StoreIdle
    /\ other = NoOther
    /\ extracted = NoExtract
    /\ state_paths = NoPaths
    /\ normalized = NoNormalized

\* NormalizeStep that strips the "@" and the slashes only at the left
NormalizeStepLeftOnly ==
    /\ ~normalized.done
    /\ normalized' = [done |-> TRUE,
                      result |-> LStrip(RemovePrefix(RemovePrefix(RemovePrefix(
                                     Strip(channel_name, {" "}), HttpsPrefix),
                                     HttpPrefix), BarePrefix), StripSet)]
    /\ UNCHANGED <<runvars, storevars, extracted, state_paths, other>>

\* _normalize_channel_username(channel_name) is called (lines 17-30).
NormalizeStep ==
    /\ ~normalized.done
    /\ normalized' = [done |-> TRUE, result |-> NormalizeChannelUsername(channel_name)]
    /\ UNCHANGED <<runvars, storevars, extracted, state_paths, other>>

NextNorm == NormalizeStep

SpecNorm == InitNorm /\ [][NextNorm]_vars

\* ------------------------------------------------------------ claims
CollectedIds == [i \in 1 .. Len(collected) |-> collected[i].message_id]
Range(f) == {f[i] : i \in DOMAIN f}
InRun == pc \notin {"idle", "entity", "select"}
Returned == pc = "idle" /\ outcome = "returned"

\* C2 (as stated): the step that chooses the starting cursor chooses
\* resume_unfinished and the middle_flag when the loaded status is
\* in_progress and the middle_flag is present, continue_archive and the
\* end_flag when the loaded status is idle and the end_flag is present, and
\* first_run and no cursor in every other case.
C2_SelectionAsStated ==
    [][(pc = "select" /\ pc' = "loop") =>
        IF state.status = "in_progress" /\ state.middle_flag # Null
        THEN run_reason' = "resume_unfinished" /\ cursor' = state.middle_flag
        ELSE IF state.status = "idle" /\ state.end_flag # Null
        THEN run_reason' = "continue_archive" /\ cursor' = state.end_flag
        ELSE run_reason' = "first_run" /\ cursor' = Null]_vars

\* C2 (amended): resume_unfinished and the middle_flag when the loaded
\* status is in_progress and the middle_flag is present; otherwise
\* continue_archive and the end_flag whenever the end_flag is present, also
\* when the status is in_progress (and the middle_flag missing); first_run
\* and no cursor only when neither applies.
C2_Selection ==
    [][(pc = "select" /\ pc' = "loop") =>
        CASE state.status = "in_progress" /\ state.middle_flag # Null ->
                run_reason' = "resume_unfinished" /\ cursor' = state.middle_flag
          [] ~(state.status = "in_progress" /\ state.middle_flag # Null)
                /\ state.end_flag # Null ->
                run_reason' = "continue_archive" /\ cursor' = state.end_flag
          [] OTHER -> run_reason' = "first_run" /\ cursor' = Null]_vars

\* C2 witness: a run has chosen continue_archive from a state file with
\* status in_progress, no middle_flag and an end_flag.
C2_Witness ==
    /\ pc = "loop"
    /\ hist.loaded.status = "in_progress"
    /\ hist.loaded.middle_flag = Null
    /\ hist.loaded.end_flag # Null
    /\ run_reason = "continue_archive"
    /\ cursor = hist.loaded.end_flag

\* C3: in a run that started with a cursor (continue_archive or
\* resume_unfinished), every message fetched, processed or returned has an
\* id strictly smaller than that cursor's id.
C3_OlderThanCursor ==
    hist.resume # Null =>
        \A i \in Range(messages) \cup hist.scanned \cup Range(CollectedIds) :
            i < hist.resume

\* C3 witness: a run resumed from a middle_flag older than the end_flag has
\* returned a record.
C3_Witness ==
    /\ Returned
    /\ hist.loaded.status = "in_progress"
    /\ hist.resume = hist.loaded.middle_flag
    /\ hist.loaded.end_flag > hist.resume
    /\ collected # <<>>

\* C5: at every point of a run and at its end the number of collected
\* records is at most max_records.
C5_CapRespected == Len(collected) <= max_records

\* C5 witness: a run has returned max_records records and messages it has
\* not processed would have qualified.
C5_Witness ==
    /\ Returned
    /\ max_records > 0
    /\ Len(collected) = max_records
    /\ \E i \in Ids(archive) :
          /\ i < collected[Len(collected)].message_id
          /\ archive[i] = WithLink

\* C6: when the cap is reached inside a batch the for loop stops at that
\* message, and the state saved at the end of the run has status idle and
\* end_flag = middle_flag = the id of the last collected record.
C6_CapMidBatch ==
    /\ (pc = "checkpoint" /\ hist.cut) =>
          /\ last_in_batch = collected[Len(collected)].message_id
          /\ \A i \in hist.scanned : i >= last_in_batch
    /\ (Returned /\ hist.cut) =>
          /\ disk.status = "idle"
          /\ disk.end_flag = collected[Len(collected)].message_id
          /\ disk.middle_flag = collected[Len(collected)].message_id
          /\ \A i \in hist.scanned : i >= disk.middle_flag

\* C6 witness: a run has returned after the cap was reached on a message
\* that was not the last of its batch.
C6_Witness ==
    /\ Returned
    /\ hist.cut
    /\ Len(collected) = max_records
    /\ \E i \in Ids(archive) : i < disk.middle_flag

\* C7: during a run the end_flag never increases, it strictly decreases
\* with each collected record (also below the end_flag that was loaded), and
\* so does the end_flag of the state file.
C7_EndFlagMonotonic ==
    [][/\ (pc # "idle" /\ pc' # "idle" /\ state.end_flag # Null) =>
            /\ state'.end_flag # Null
            /\ state'.end_flag <= state.end_flag
       /\ (pc = "scan" /\ Len(collected') > Len(collected)) =>
            /\ state'.end_flag = collected'[Len(collected')].message_id
            /\ state.end_flag # Null => state'.end_flag < state.end_flag
            /\ hist.loaded.end_flag # Null => state'.end_flag < hist.loaded.end_flag
       /\ disk.end_flag # Null =>
            /\ disk'.end_flag # Null
            /\ disk'.end_flag <= disk.end_flag]_vars

\* C7 witness: a run that loaded an end_flag has collected two records.
C7_Witness ==
    /\ InRun
    /\ hist.loaded.end_flag # Null
    /\ Len(collected) = 2
    /\ state.end_flag = collected[2].message_id

\* C8: during a run (from the save that marks its start on) the middle_flag
\* never increases: each save of a batch writes a middle_flag no greater
\* than the one in memory and the one in the state file before it.
C8_MiddleFlagMonotonic ==
    [][InRun =>
        /\ (pc' # "idle" /\ state.middle_flag # Null) =>
              /\ state'.middle_flag # Null
              /\ state'.middle_flag <= state.middle_flag
        /\ disk.middle_flag # Null =>
              /\ disk'.middle_flag # Null
              /\ disk'.middle_flag <= disk.middle_flag]_vars

\* a message that contains the search term and gives a url
Collectable(i) == archive[i].match /\ ExtractUrl(archive[i], i, channel_name) # NoUrl

\* the first n collectable messages older than top, newest first
Expected(top, n) == Newest({i \in 1 .. top - 1 : Collectable(i)}, n)

\* C4: a run that returns, whatever the number of read errors retried in
\* between, returns exactly the first min(max_records, number available)
\* messages older than its starting cursor (older than the newest message
\* of its first read when it has no cursor) that contain the search term and
\* give a url, newest first, each once.
C4_Result ==
    Returned =>
        /\ CollectedIds = Expected(hist.top, max_records)
        /\ \A k \in 1 .. Len(collected) :
              collected[k].url = ExtractUrl(archive[collected[k].message_id],
                                            collected[k].message_id, channel_name)

\* the flags of a state
Flags(st) == {st.middle_flag, st.end_flag} \ {Null}

\* the flag the protocol resumes from: the middle_flag of a run that did
\* not finish, else the end_flag
Frontier(st) ==
    IF st.status = "in_progress" /\ st.middle_flag # Null THEN {st.middle_flag}
    ELSE IF st.end_flag # Null THEN {st.end_flag}
    ELSE {}

\* C1: run N has left the state hist.loaded and run N+1 is running. No
\* message whose id lies strictly between the frontier left by run N and a
\* message run N+1 has processed is left unprocessed by both runs; the same
\* holds for either flag run N left, counting the runs before them too.
C1_NoGap ==
    /\ \A e \in Ids(archive), s \in hist.scanned, f \in Frontier(hist.loaded) :
          (s < e /\ e < f) => e \in hist.scanned \cup hist.prev_scanned
    /\ \A e \in Ids(archive), s \in hist.scanned, f \in Flags(hist.loaded) :
          (s < e /\ e < f) => e \in hist.scanned \cup hist.ever

\* C1 witness: the run after a run that was killed while processing a batch
\* has processed a message older than all that run processed.
C1_Witness ==
    /\ hist.prev_killed
    /\ hist.prev_inflight # {}
    /\ hist.loaded.middle_flag # Null
    /\ \E s \in hist.scanned : \A p \in hist.prev_scanned : s < p
    /\ \E e \in Ids(archive), s \in hist.scanned : s < e /\ e < hist.loaded.middle_flag

\* C9: the run after a run that was killed processes again only messages
\* of the batch that run had not saved, so at most batch_size messages that
\* run had processed.
C9_BoundedRescan ==
    hist.prev_killed =>
        /\ hist.scanned \cap hist.prev_scanned \subseteq hist.prev_inflight
        /\ Cardinality(hist.scanned \cap hist.prev_scanned) <= batch_size

\* C9 witness: the run after a killed run has processed again a whole batch
\* of two messages.
C9_Witness ==
    /\ hist.prev_killed
    /\ batch_size = 2
    /\ Cardinality(hist.scanned \cap hist.prev_scanned) = 2

\* C10 (as stated): over the runs a message is processed again at most
\* once, and a run processes again only messages of the batch its
\* predecessor was killed in.
C10_RescanAsStated ==
    /\ ~hist.dup
    /\ hist.scanned \cap hist.again = {}
    /\ hist.scanned \cap hist.prev_scanned \subseteq
          (IF hist.prev_killed THEN hist.prev_inflight ELSE {})

\* C10 (amended): a run processes no message twice; of the messages its
\* predecessor processed it processes again only the batch the predecessor
\* was killed in or, after a predecessor that returned, messages older than
\* the end_flag that predecessor left (any of them when it left none).
C10_Rescan ==
    /\ ~hist.dup
    /\ hist.scanned \cap hist.prev_scanned \subseteq
          (IF hist.prev_killed THEN hist.prev_inflight
           ELSE {e \in hist.prev_scanned :
                    hist.loaded.end_flag # Null => e < hist.loaded.end_flag})

\* C10 witness: a run after a predecessor that returned is processing a
\* message for the third time.
C10_Witness ==
    /\ ~hist.prev_killed
    /\ hist.loaded.status = "idle"
    /\ \E e \in hist.scanned : e \in hist.again /\ e \in hist.prev_scanned

\* what load gives for a file at self.path
LoadOf(f) == IF f.exists THEN Parse(f.content) ELSE [ok |-> TRUE, state |-> DefaultState]

\* a step of load, and the step of os.replace
LoadStep == load_result'.done /\ ~load_result.done
ReplaceStep == save_pc = "dump" /\ save_pc' = "idle" /\ ~files'.tmp.exists

\* C11: whatever the point save is killed at, every step leaves the file at
\* self.path as it was or makes it the whole text of the new state; the file
\* always parses, and a load gives the state the file held before the last
\* save or the state that save was given (the latter when the save was not
\* killed).
C11_AtomicSave ==
    [][/\ \/ files'.path = files.path
          \/ files'.path = [exists |-> TRUE, content |-> Dump(save_arg)]
       /\ LoadOf(files'.path).ok
       /\ LoadStep =>
             /\ load_result'.ok
             /\ load_result'.state \in {LoadOf(store_hist.before).state, save_arg}
             /\ ~store_hist.killed => load_result'.state = save_arg]_vars

\* C11 witness: a save over an existing file was killed with a part of the
\* new text written, and the load after it gave the old state.
C11_Witness ==
    /\ store_hist.killed
    /\ files.tmp.exists
    /\ Len(files.tmp.content) \in 1 .. 6
    /\ store_hist.before.exists
    /\ load_result.done
    /\ load_result.state = LoadOf(store_hist.before).state
    /\ load_result.state # save_arg

\* a save that runs to its end with the state the file holds leaves the
\* file as it is
IdempotentStep ==
    (ReplaceStep /\ files.path.exists /\ LoadOf(files.path).state = save_arg) =>
        files'.path = files.path

\* C12 (as stated): saving the state the file holds leaves the file as it
\* is, and while no save is running no file on disk holds a partial text.
C12_IdempotentAsStated ==
    [][/\ IdempotentStep
       /\ save_pc' = "idle" =>
             /\ LoadOf(files'.path).ok
             /\ LoadOf(files'.tmp).ok]_vars

\* C12 (amended): saving the state the file holds leaves the file as it
\* is; the file at self.path never holds a partial text; the file at
\* tmp_path is left behind only by a save that was killed, and a save that
\* runs to its end leaves none.
C12_IdempotentSave ==
    [][/\ IdempotentStep
       /\ LoadOf(files'.path).ok
       /\ (save_pc' = "idle" /\ files'.tmp.exists) => store_hist'.killed
       /\ ReplaceStep => LoadOf(files'.path).state = save_arg]_vars

\* C12 witness: after a save that was killed, a state was saved twice in a
\* row; no file is left at tmp_path.
C12_Witness ==
    /\ store_hist.resaved
    /\ store_hist.ever_killed
    /\ save_pc = "idle"
    /\ ~files.tmp.exists
    /\ LoadOf(files.path).state = save_arg

\* C13: a load while no file exists at self.path gives status idle and no
\* start_flag, middle_flag or end_flag; no load creates or changes a file;
\* the file at self.path comes to exist only by the os.replace of a save.
C13_LoadDefault ==
    [][/\ LoadStep =>
             /\ files' = files
             /\ ~files.path.exists =>
                   /\ load_result'.ok
                   /\ load_result'.state.status = "idle"
                   /\ load_result'.state.start_flag = Null
                   /\ load_result'.state.middle_flag = Null
                   /\ load_result'.state.end_flag = Null
       /\ (~files.path.exists /\ files'.path.exists) => ReplaceStep]_vars

\* C13 witness: a load has returned while no file existed at self.path (a
\* killed save had left a file at tmp_path).
C13_Witness ==
    /\ load_result.done
    /\ ~files.path.exists
    /\ files.tmp.exists
    /\ load_result.state = DefaultState

\* C14: while the state file does not parse no call gets past its load: a
\* call that starts ends at once with the error of the load, and a call in
\* its loop keeps its state and cursor until it ends, with that error when
\* it reloads; a call that ends with that error leaves the file as it is
\* (still not parsing) and returns nothing.
C14_CorruptFatal ==
    [][/\ (corrupt /\ pc = "idle") => pc' = "idle"
       /\ (corrupt /\ pc = "idle" /\ runs' # runs) => outcome' = "JSONDecodeError"
       /\ (corrupt /\ pc = "loop" /\ pc' = "loop") => UNCHANGED <<state, cursor>>
       /\ (outcome' = "JSONDecodeError" /\ (outcome # "JSONDecodeError" \/ runs' # runs
                                              \/ pc # "idle")) =>
             /\ corrupt /\ corrupt'
             /\ pc' = "idle"
             /\ collected' = <<>>
             /\ UNCHANGED <<disk, file_exists>>]_vars

\* C14 witness: a call that had processed messages has ended with the error
\* of the load, at the reload after a read error.
C14_Witness ==
    /\ pc = "idle"
    /\ outcome = "JSONDecodeError"
    /\ corrupt
    /\ hist.scanned # {}
    /\ disk.status = "in_progress"

\* C15: no step before the identity is resolved writes the state; the
\* identity error ends the call at that point, and the state a load gives
\* after it is the one the call loaded, the file being there or not as
\* before.
C15_IdentityFailure ==
    [][/\ pc \in {"idle", "entity"} => UNCHANGED <<disk, file_exists>>
       /\ (outcome' = "error" /\ outcome # "error") => pc = "entity"
       /\ (pc = "entity" /\ outcome' = "error") =>
             /\ pc' = "idle"
             /\ collected' = <<>>
             /\ Load' = hist.loaded]_vars

\* C15 witness: the identity error has ended a call made after a call that
\* was killed; the state file still holds status in_progress and the
\* middle_flag.
C15_Witness ==
    /\ pc = "idle"
    /\ outcome = "error"
    /\ file_exists
    /\ disk.status = "in_progress"
    /\ disk.middle_flag # Null
    /\ disk = hist.loaded

\* C16: no call ends with the error of a connection or read that failed.
C16_TransportRetried == outcome # "ConnectionError"

\* C17: a call that has resolved the identity and is not killed, whose
\* reads succeed in the end, returns with status idle in the state file;
\* the messages of a batch are older than the cursor, and the save after
\* the batch sets the cursor to one of them.
C17_Termination ==
    /\ (pc \notin {"idle", "entity"}) ~>
          (pc = "idle" /\ outcome = "returned" /\ disk.status = "idle")
    /\ [][/\ (pc = "loop" /\ pc' = "scan") =>
               \A i \in Range(messages') : cursor = Null \/ i < cursor
          /\ pc = "checkpoint" =>
               /\ cursor' \in Range(messages)
               /\ cursor # Null => cursor' < cursor]_vars

\* C17 witness: a call has returned after two read errors and three
\* batches.
C17_Witness ==
    /\ Returned
    /\ disk.status = "idle"
    /\ batch_size = 1
    /\ Cardinality(hist.scanned) = 3

\* C18: after a call has returned, the state file holds status idle, a
\* finished_at, and as meta.collected the number of records returned.
C18_FinalState ==
    Returned =>
        /\ file_exists
        /\ disk.status = "idle"
        /\ disk.meta.finished_at
        /\ disk.meta.collected = Len(collected)

\* C18 witness: a call has returned two records.
C18_Witness ==
    /\ Returned
    /\ Len(collected) = 2
    /\ disk.meta.collected = 2
    /\ disk.meta.max_records = 2

\* C19: a call returns only with max_records records collected or right
\* after a read that gave no message; after a batch shorter than batch_size
\* that leaves records wanted, the call goes on to the next read.
C19_RunEnd ==
    [][/\ (outcome' = "returned" /\ pc # "idle") =>
             \/ Len(collected) >= max_records
             \/ pc = "finalize" /\ messages = <<>>
       /\ (pc' = "finalize") => (pc = "loop" /\ messages' = <<>>)
       /\ (pc = "checkpoint" /\ Len(messages) < batch_size
              /\ WantMore(collected, max_records)) =>
             /\ outcome' # "returned"
             /\ pc' \in {"loop", "idle"}]_vars

\* C19 witness: a call with batch_size 2 has returned fewer than max_records
\* records after a batch of two messages, a batch of one and an empty read.
C19_Witness ==
    /\ Returned
    /\ Len(collected) < max_records
    /\ batch_size = 2
    /\ Cardinality(hist.scanned) = 3

\* C20: for a message that contains the search term, _extract_url gives
\* the url of the first button when that button has one, else the url of
\* the text when the text holds one, else the permalink when the channel
\* name normalizes to a username, and nothing only when none of the three
\* is there.
C20_UrlPrecedence ==
    (extracted.done /\ archive[extracted.id].match) =>
        LET msg == archive[extracted.id]
            id == extracted.id
        IN  extracted.url =
                IF msg.button = "url" THEN [src |-> "button", id |-> id]
                ELSE IF msg.texturl THEN [src |-> "text", id |-> id]
                ELSE IF NormalizeChannelUsername(channel_name) # <<>>
                THEN [src |-> "permalink", id |-> id]
                ELSE NoUrl

\* a handle: one or more tokens, none of them a stripped character or a
\* piece of a prefix
IsHandle(h) == h # <<>> /\ \A i \in 1 .. Len(h) : h[i] = "x"

\* the forms of a name for the handle h: the handle, "@" and the handle, a
\* prefix and the handle; each with or without a trailing slash
FormsOf(h) ==
    { p \o h \o c : p \in {<<>>, <<"@">>, HttpsPrefix, HttpPrefix, BarePrefix},
                    c \in {<<>>, <<"/">>} }

\* s begins with one of the prefixes
HasPrefix(s) ==
    StartsWith(s, HttpsPrefix) \/ StartsWith(s, HttpPrefix) \/ StartsWith(s, BarePrefix)

\* the forms of a handle give the handle; no result but None begins or ends
\* with a stripped character; None is given for a name of stripped characters
\* only, and for no name that holds a piece of a handle
NormalizedCommon ==
    LET r == normalized.result
    IN  /\ \A h \in NamesUpTo(MaxNameLen) :
              (IsHandle(h) /\ channel_name \in FormsOf(h)) =>
                  (r = h /\ NormalizeChannelUsername(r) = r)
        /\ r # <<>> => (r[1] \notin StripSet /\ r[Len(r)] \notin StripSet)
        /\ (\A i \in 1 .. Len(channel_name) : channel_name[i] \in StripSet) => r = <<>>
        /\ r = <<>> => \A i \in 1 .. Len(channel_name) : channel_name[i] # "x"

\* C30 (as stated): the forms of a handle give the handle; a result other
\* than None begins with no prefix and no "@", ends with no slash, and is
\* its own normalization; None is given exactly when nothing remains.
C30_NormalizationAsStated ==
    normalized.done =>
        /\ NormalizedCommon
        /\ normalized.result # <<>> =>
              /\ ~HasPrefix(normalized.result)
              /\ NormalizeChannelUsername(normalized.result) = normalized.result

\* C30 (amended): the forms of a handle give the handle, which is its own
\* normalization; a result other than None neither begins nor ends with an
\* "@", a slash or a space; None is given exactly when nothing remains.
\* (For other names, such as a prefix after an "@", the result may begin
\* with a prefix.)
C30_Normalization == normalized.done => NormalizedCommon

\* C30 witness: a name made of a space, the https prefix, a handle and a
\* slash has given the handle.
C30_Witness ==
    /\ normalized.done
    /\ channel_name = <<" ">> \o HttpsPrefix \o <<"x", "/">>
    /\ normalized.result = <<"x">>

\* C22: two calls of make_state_path with the same channel name and
\* search term give the same path, and calls with two different pairs give
\* two different paths.
C22_OnePathPerIdentity ==
    state_paths.done =>
        /\ state_paths.a = state_paths.b => state_paths.path_a = state_paths.path_b
        /\ state_paths.a # state_paths.b => state_paths.path_a # state_paths.path_b

\* the entry the scan is at matches the search term and has no url
AtSkipped ==
    /\ pc = "scan"
    /\ idx <= Len(messages)
    /\ archive[messages[idx]].match
    /\ ExtractUrl(archive[messages[idx]], messages[idx], channel_name) = NoUrl

\* the step that processes one entry of the batch
ScanStep == pc = "scan" /\ idx' = idx + 1

\* the step that ends a batch
CheckpointStep == pc = "checkpoint" /\ pc' \in {"loop", "reconnect"}

\* C21: the scan of an entry that matches the search term and has no url
\* raises nothing and appends nothing, leaves end_flag as it was, and
\* makes the entry the last scanned entry of its batch; the checkpoint of
\* a batch saves the id of its last scanned entry as middle_flag, also
\* when that entry was skipped.
C21_SkippedStillScanned ==
    /\ [][ScanStep /\ AtSkipped =>
             /\ collected' = collected
             /\ state'.end_flag = state.end_flag
             /\ last_in_batch' = messages[idx]
             /\ messages[idx] \in hist'.scanned
             /\ outcome' = outcome
             /\ pc' \in {"scan", "checkpoint"}]_vars
    /\ [][CheckpointStep /\ last_in_batch # Null =>
             /\ disk'.middle_flag = last_in_batch
             /\ state'.middle_flag = last_in_batch]_vars

\* a checkpoint has saved the id of a skipped entry as middle_flag
C21_Witness ==
    /\ pc \in {"loop", "reconnect"}
    /\ disk.middle_flag # Null
    /\ disk.middle_flag \in hist.scanned
    /\ archive[disk.middle_flag] = Silent
    /\ disk.middle_flag \notin Range(CollectedIds)
    /\ Len(collected) < max_records

\* the step that marks the start of the run
MarkStep == pc = "select" /\ pc' = "loop"

\* the step that ends the run after the loop
FinalizeStep == pc \in {"loop", "finalize"} /\ pc' = "idle" /\ outcome' = "returned"

\* the step that loads the state at the start of a call
StartStep == pc = "idle" /\ pc' = "entity"

\* a step that changes the state file
Written == disk' # disk \/ file_exists' # file_exists

\* C23 (as stated): after the load at its start a call never reads the
\* state file again, and the state file changes only in the steps that end
\* a batch and in the step that ends the run.
C23_ReadsWritesAsStated ==
    /\ [][~hist'.reread]_vars
    /\ [][Written => CheckpointStep \/ FinalizeStep]_vars

\* C23: the state file is read by the load at the start of a call and by
\* the reload after each read error, which happens between two reads of
\* the loop; it is written by the step that marks the start of the run,
\* by each step that ends a batch and by the step that ends the run, each
\* of which saves the whole state, and it changes in no other step.
C23_ReadsWrites ==
    /\ [][StartStep => state' = Load /\ ~hist'.reread]_vars
    /\ [][hist'.reread /\ ~hist.reread =>
             pc = "loop" /\ pc' = "loop" /\ state' = Load]_vars
    /\ [][Written => MarkStep \/ CheckpointStep \/ FinalizeStep]_vars
    /\ [][MarkStep \/ CheckpointStep => file_exists' /\ disk' = state']_vars
    /\ [][FinalizeStep => file_exists' /\ disk'.status = "idle"]_vars

\* a run has marked its start in the state file, saved a batch and
\* reloaded the state after a read error
C23_Witness ==
    /\ pc = "loop"
    /\ hist.reread
    /\ hist.scanned # {}
    /\ hist.loaded.status = "idle"
    /\ disk.status = "in_progress"
    /\ disk.middle_flag \in hist.scanned
    /\ state = disk

\* the step that reloads the state after a read error
ReloadStep == pc = "loop" /\ hist'.reread /\ ~hist.reread

\* C24: after a read error the state is loaded again from the state file,
\* the cursor becomes the middle_flag of that state, or stays what it was
\* when that middle_flag is null, the records collected so far stay, the
\* state file stays, and the call is back at the read of a batch; there
\* the read can succeed or fail again, whatever the number of errors
\* before.
C24_FetchRetry ==
    /\ [][ReloadStep =>
             /\ state' = Load
             /\ cursor' = IF Load.middle_flag # Null THEN Load.middle_flag ELSE cursor
             /\ collected' = collected
             /\ disk' = disk /\ file_exists' = file_exists
             /\ pc' = "loop"
             /\ outcome' = outcome]_vars
    /\ [](pc = "loop" /\ hist.reread => ENABLED Fetch /\ ENABLED FetchFail)

\* a read has failed after a batch with a record was saved: the cursor is
\* the middle_flag of the state file
C24_Witness ==
    /\ pc = "loop"
    /\ hist.reread
    /\ collected # <<>>
    /\ cursor # Null
    /\ cursor = disk.middle_flag
    /\ state = disk

\* C25: the scan of a message changes neither the middle_flag nor the
\* state file; the step that ends a batch, after the last message of the
\* batch or after the message that reached max_records, sets middle_flag
\* to the id of the last message scanned in the batch, which no message
\* scanned by the run is older than, and saves the state; at the
\* reconnect and at every later read of the loop the state file holds
\* that middle_flag.
C25_CheckpointDiscipline ==
    /\ [][ScanStep =>
             /\ state'.middle_flag = state.middle_flag
             /\ disk' = disk /\ file_exists' = file_exists]_vars
    /\ [][CheckpointStep =>
             /\ idx > 1
             /\ idx = Len(messages) + 1 \/ ~WantMore(collected, max_records)
             /\ last_in_batch = messages[idx - 1]
             /\ state'.middle_flag = last_in_batch
             /\ \A i \in hist.scanned : last_in_batch <= i
             /\ file_exists' /\ disk' = state']_vars
    /\ [](pc = "reconnect" \/ (pc = "loop" /\ hist.scanned # {}) =>
             /\ file_exists
             /\ disk.middle_flag = cursor
             /\ cursor \in hist.scanned
             /\ \A i \in hist.scanned : cursor <= i)

\* a batch of two messages was left at its first message, which is the
\* saved middle_flag
C25_Witness ==
    /\ pc = "loop"
    /\ hist.cut
    /\ Len(messages) = 2
    /\ disk.middle_flag = messages[1]
    /\ hist.scanned = {messages[1]}

\* C26: the step that ends a batch goes on to the disconnect, pause and
\* reconnect exactly when the batch has batch_size messages and fewer
\* than max_records records are collected, and to the test of the loop
\* otherwise; the reconnect is entered from no other step, and it changes
\* nothing but the position of the call.
C26_ReconnectPolicy ==
    /\ [][CheckpointStep =>
             (pc' = "reconnect" <=>
                 Len(messages) = batch_size /\ Len(collected) < max_records)]_vars
    /\ [][pc' = "reconnect" => pc = "reconnect" \/ CheckpointStep]_vars
    /\ [][pc = "reconnect" /\ pc' # "idle" =>
             /\ pc' = "loop"
             /\ UNCHANGED <<state, disk, cursor, collected, archive>>]_vars

\* a reconnect after a full batch of two messages with one record, short
\* of max_records
C26_Witness ==
    /\ pc = "reconnect"
    /\ batch_size = 2
    /\ Len(messages) = 2
    /\ Len(collected) = 1
    /\ max_records = 2

\* C27: between the load and the end of a call the end_flag in memory
\* changes only in the scan of a message that is appended as a record,
\* and becomes the id of that message; it is the id of the last record
\* while there are records, and the loaded end_flag while there are none,
\* and a call that returns no record leaves the loaded end_flag in the
\* state file.
C27_EndFlagFollowsRecords ==
    /\ [][pc # "idle" /\ pc' # "idle" /\ state'.end_flag # state.end_flag =>
             /\ ScanStep
             /\ collected' = Append(collected, collected'[Len(collected')])
             /\ collected'[Len(collected')].message_id = messages[idx]
             /\ state'.end_flag = messages[idx]]_vars
    /\ [][Len(collected') > Len(collected) =>
             state'.end_flag = collected'[Len(collected')].message_id]_vars
    /\ [](pc # "idle" /\ collected # <<>> =>
             state.end_flag = collected[Len(collected)].message_id)
    /\ [](pc # "idle" /\ collected = <<>> => state.end_flag = hist.loaded.end_flag)
    /\ [](Returned /\ collected = <<>> => disk.end_flag = hist.loaded.end_flag)

\* a message without record was scanned after the one record of the
\* run: the end_flag is the id of the record
C27_Witness ==
    /\ pc = "checkpoint"
    /\ Len(collected) = 1
    /\ state.end_flag = collected[1].message_id
    /\ last_in_batch # Null
    /\ last_in_batch < state.end_flag
    /\ hist.loaded.end_flag # Null

\* the call has marked its start and has not ended
Underway == pc \in {"loop", "scan", "checkpoint", "reconnect", "finalize"}

\* C28: the step before the first read of a batch saves a state with
\* status in_progress, and so does every step that ends a batch; from
\* that first save until the step that ends the run the state file holds
\* status in_progress, also after a kill; a state with status idle is
\* written by the step that ends the run only.
C28_CrashDetectable ==
    /\ [][MarkStep \/ CheckpointStep =>
             file_exists' /\ disk'.status = "in_progress"]_vars
    /\ [](Underway => file_exists /\ disk.status = "in_progress")
    /\ [][Underway /\ pc' = "idle" /\ outcome' # "returned" =>
             file_exists' /\ disk'.status = "in_progress"]_vars
    /\ [][Written /\ disk'.status = "idle" => FinalizeStep]_vars

\* a call that found status idle was killed after it had scanned a
\* message: the state file holds status in_progress
C28_Witness ==
    /\ pc = "idle"
    /\ outcome = "killed"
    /\ hist.loaded.status = "idle"
    /\ hist.scanned # {}
    /\ file_exists
    /\ disk.status = "in_progress"

\* C29: the step that marks the start of the run sets start_flag, in
\* memory and in the state file, to the id of the newest message of the
\* channel, looked up just before (in an empty channel it stays as
\* loaded); no later step of the run changes it in memory, and none,
\* the end of the run and a kill included, changes it in the state file.
C29_StartFlag ==
    /\ [][pc = "entity" /\ pc' = "select" => latest_flag' = Len(archive)]_vars
    /\ [][MarkStep =>
             /\ latest_flag = Len(archive)
             /\ state'.start_flag =
                    IF archive # <<>> THEN Len(archive) ELSE hist.loaded.start_flag
             /\ disk'.start_flag = state'.start_flag]_vars
    /\ [][Underway /\ pc' # "idle" => state'.start_flag = state.start_flag]_vars
    /\ [][Underway => disk'.start_flag = disk.start_flag]_vars

\* a run has marked its start, a message was posted, a batch was saved
\* and the state reloaded: start_flag is the id that was the newest at
\* the start
C29_Witness ==
    /\ pc = "loop"
    /\ hist.reread
    /\ hist.scanned # {}
    /\ disk.start_flag # Null
    /\ disk.start_flag < Len(archive)
    /\ disk.start_flag # hist.loaded.start_flag
    /\ state.start_flag = disk.start_flag

\* C31: a state file that holds an end_flag holds a middle_flag; no
\* state file holds status in_progress and an end_flag without a
\* middle_flag.
C31_EndImpliesMiddle ==
    file_exists =>
        /\ disk.end_flag # Null => disk.middle_flag # Null
        /\ ~(disk.status = "in_progress" /\ disk.middle_flag = Null
                /\ disk.end_flag # Null)

\* a run that had collected a record was killed: the state file holds
\* status in_progress, an end_flag and a middle_flag
C31_Witness ==
    /\ pc = "idle"
    /\ outcome = "killed"
    /\ file_exists
    /\ disk.status = "in_progress"
    /\ disk.end_flag # Null
    /\ disk.middle_flag # Null
    /\ hist.loaded.end_flag = Null

\* C32: in a state file that holds a middle_flag and an end_flag, the
\* middle_flag is not newer than the end_flag; the step that ends a batch
\* saves both from the state in memory.
C32_MiddleNotNewerThanEnd ==
    /\ [](file_exists /\ disk.middle_flag # Null /\ disk.end_flag # Null =>
             disk.middle_flag <= disk.end_flag)
    /\ [][CheckpointStep =>
             /\ disk'.middle_flag = state'.middle_flag
             /\ disk'.end_flag = state'.end_flag
             /\ state'.end_flag = state.end_flag]_vars

\* messages were scanned after the last record: the saved middle_flag is
\* older than the saved end_flag
C32_Witness ==
    /\ file_exists
    /\ disk.end_flag # Null
    /\ disk.middle_flag # Null
    /\ disk.middle_flag < disk.end_flag

\* C33: whenever a run is about to read a batch, its cursor is the
\* middle_flag of the state file (both null, or the same id), and the
\* reload after a read error leaves the cursor as it was.
C33_CursorIsMiddleFlag ==
    /\ [](pc = "loop" /\ WantMore(collected, max_records) =>
             file_exists /\ cursor = disk.middle_flag)
    /\ [][ReloadStep => cursor' = cursor]_vars

\* C34: a call collects no message whose id an earlier call has
\* returned, so no id is returned by two calls; a call that is killed
\* returns nothing.
C34_ReturnedOnce ==
    /\ [](pc # "idle" => Range(CollectedIds) \cap hist.returned = {})
    /\ [][FinalizeStep =>
             /\ Range(CollectedIds) \cap hist.returned = {}
             /\ hist'.returned = hist.returned \cup Range(CollectedIds)
             /\ collected' = collected]_vars
    /\ [][pc' = "idle" /\ pc # "idle" /\ ~FinalizeStep =>
             collected' = <<>> /\ hist'.returned = hist.returned]_vars

\* a call has returned a record after an earlier call had returned
\* another, and a call was killed
C34_Witness ==
    /\ Returned
    /\ collected # <<>>
    /\ hist.returned # Range(CollectedIds)
    /\ hist.prev_killed

\* the messages a call would collect: they hold the search term and a url
\* is derived for them
Qualifying == {e \in Ids(archive) :
                 /\ archive[e].match
                 /\ ExtractUrl(archive[e], e, channel_name) # NoUrl}

\* C35: between two calls, every message with the search term and a url
\* that some call has scanned and that is not older than the middle_flag
\* of the state file has been returned by some call.
C35_Delivery ==
    pc = "idle" /\ file_exists /\ disk.middle_flag # Null =>
        \A e \in Qualifying \cap (hist.ever \cup hist.scanned) :
            e >= disk.middle_flag => e \in hist.returned

\* the other process has marked its start and has not ended
OtherUnderway == other.pc \in {"loop", "scan", "checkpoint", "reconnect", "finalize"}

\* a step of the process that takes the steps
Own == other' = other

\* a call can start, and a call that has started can mark its start,
\* whatever the state file and the other process
NeverRefused ==
    /\ pc = "idle" /\ runs < MaxRuns => ENABLED (\E mr \in 0 .. MaxRecords : StartRun(mr))
    /\ pc = "entity" => ENABLED GetEntity
    /\ pc = "select" => ENABLED MarkRunStart

\* C36 (as stated): a call is never refused; a call that loaded the state
\* while the other process was in a run chooses resume_unfinished and the
\* middle_flag it loaded; every save writes the state of its process over
\* the file.
C36_RivalRunAsStated ==
    /\ []NeverRefused
    /\ [][Own /\ MarkStep /\ hist.rival =>
             /\ run_reason' = "resume_unfinished"
             /\ cursor' = hist.loaded.middle_flag
             /\ cursor' # Null]_vars
    /\ [][Own /\ (MarkStep \/ CheckpointStep) => file_exists' /\ disk' = state']_vars

\* C36: a call is never refused; the step that marks the start chooses
\* the reason and the cursor from the loaded state alone, as it does
\* after a kill: resume_unfinished and the loaded middle_flag when that
\* state holds status in_progress and a middle_flag, which is the case
\* once the other process has saved a batch, else continue_archive or
\* first_run; no save waits for the other process, and every save
\* writes the state of its process over the file.
C36_RivalRun ==
    /\ []NeverRefused
    /\ [](pc = "checkpoint" => ENABLED Checkpoint)
    /\ [](pc = "finalize" => ENABLED Finalize)
    /\ [][Own /\ MarkStep =>
             /\ state = hist.loaded
             /\ IF hist.loaded.status = "in_progress" /\ hist.loaded.middle_flag # Null
                THEN run_reason' = "resume_unfinished"
                     /\ cursor' = hist.loaded.middle_flag
                ELSE IF hist.loaded.end_flag # Null
                THEN run_reason' = "continue_archive"
                     /\ cursor' = hist.loaded.end_flag
                ELSE run_reason' = "first_run" /\ cursor' = Null]_vars
    /\ [][Own /\ StartStep /\ OtherUnderway /\ other.hist.scanned # {}
             /\ other.hist.inflight = {} /\ disk = other.state =>
             /\ state'.status = "in_progress"
             /\ state'.middle_flag = other.cursor
             /\ state'.middle_flag # Null]_vars
    /\ [][Own /\ (MarkStep \/ CheckpointStep) => file_exists' /\ disk' = state']_vars

\* a call that started during the run of the other process has resumed
\* from the batch that process had saved, and has saved a batch of its
\* own over it: the file is not what the other process holds
C36_Witness ==
    /\ hist.rival
    /\ run_reason = "resume_unfinished"
    /\ hist.resume \in other.hist.scanned
    /\ OtherUnderway
    /\ pc \in {"loop", "reconnect"}
    /\ hist.scanned # {}
    /\ state = disk
    /\ other.state # disk

\* C37: a call with max_records = 0 reads no batch and collects nothing;
\* it saves status in_progress at its start, and returns no record after
\* it has saved status idle, meta.collected = 0 and the end_flag it
\* loaded.
C37_ZeroRecords ==
    /\ [](max_records = 0 => ~ENABLED Fetch /\ ~ENABLED FetchFail)
    /\ [](max_records = 0 /\ pc # "idle" =>
             /\ pc \in {"entity", "select", "loop"}
             /\ collected = <<>>
             /\ messages = <<>>
             /\ state.end_flag = hist.loaded.end_flag)
    /\ [](max_records = 0 /\ pc = "loop" =>
             /\ file_exists /\ disk.status = "in_progress"
             /\ disk.end_flag = hist.loaded.end_flag
             /\ ENABLED Finalize)
    /\ [][max_records = 0 /\ pc = "loop" /\ pc' = "idle" /\ outcome' = "returned" =>
             /\ collected' = <<>>
             /\ file_exists'
             /\ disk'.status = "idle"
             /\ disk'.meta.collected = 0
             /\ disk'.meta.finished_at
             /\ disk'.end_flag = hist.loaded.end_flag]_vars

\* a call with max_records = 0 has returned after a call that had
\* collected a record
C37_Witness ==
    /\ Returned
    /\ max_records = 0
    /\ collected = <<>>
    /\ disk.status = "idle"
    /\ disk.meta.max_records = 0
    /\ disk.meta.collected = 0
    /\ disk.end_flag # Null
    /\ disk.end_flag = hist.loaded.end_flag

====
